---- MODULE Spec2Model ----
(***************************************************************************)
(* State-machine model of the MarsRover environment                        *)
(* (src/rl_exercises/environments.py).                                     *)
(*                                                                         *)
(* Numbers.  Probabilities and uniform draws are rationals with the common *)
(* denominator Denom: an entry of transition_probabilities is a numerator  *)
(* in 0..Denom (the closed interval [0,1]) and a draw of rng.random() is a *)
(* numerator in 0..Denom-1 (the half-open interval [0,1)).  Rewards are    *)
(* integers.  numpy arrays and Python lists are functions with domain      *)
(* 0..len-1.  The numpy Generator is a deterministic generator over the    *)
(* finite state space 0..RngMod-1.                                         *)
(***************************************************************************)
EXTENDS Integers, FiniteSets, Sequences, TLC

VARIABLES env, ret, init_args, sarsa_frame

vars == <<env, ret, init_args, sarsa_frame>>

\* ---------------------------------------------------------------- bounds
MaxN == 6
Denom == 2
RngMod == 8
MaxHorizon == 2
MaxSteps == 3
MaxAction == 3
MaxSeed == 1
InterMaxSteps == 2
MaxEpisodes == 3

\* seed=None of __init__ (seeds of default_rng are non-negative integers)
NoSeed == -1

Probs == 0..Denom
Draws == 0..(Denom - 1)
Seeds == {NoSeed} \cup 0..MaxSeed
\* integer actions passed to step, valid ({0, 1}) and invalid
ActionInputs == (-MaxAction)..(MaxAction - 1)

\* ---------------------------------------------------------------- helpers
len(x) == Cardinality(DOMAIN x)

max(a, b) == IF a >= b THEN a ELSE b

min(a, b) == IF a <= b THEN a ELSE b

np_arange(lo, hi) == [i \in 0..(hi - lo - 1) |-> lo + i]

Values(x) == {x[i] : i \in DOMAIN x}

RECURSIVE SumOver(_, _)
SumOver(f, D) ==
  IF D = {} THEN 0
  ELSE LET d == CHOOSE d \in D : TRUE IN f[d] + SumOver(f, D \ {d})

EmptyDict == <<>>

\* no call of sarsa is in progress
NoCall == [pc |-> "idle"]

\* ---------------------------------------------------------------- generator
\* a generator that ignores the seed it is given
default_rng_unseeded(seed, entropy) == entropy

\* np.random.default_rng(seed): the generator's initial state is a function
\* of the seed; with seed=None it is taken from the operating system's
\* entropy.
default_rng(seed, entropy) ==
  IF seed = NoSeed THEN entropy ELSE (3 * seed + 1) % RngMod

\* the generator's state after one call of rng.random()
rng_advance(state) == (5 * state + 3) % RngMod

\* the value rng.random() returns when called in state `state`
rng_random(state) == (rng_advance(state) \div 2) % Denom

\* ---------------------------------------------------------------- MarsRover
\* the movement rule with the right edge at the literal 4
get_next_state_edge4(s, a, S) ==
  LET delta_s == IF a = 0 THEN -1 ELSE 1
      s_next == s + delta_s
  IN max(min(s_next, 4), 0)

get_next_state(s, a, S) ==
  LET delta_s == IF a = 0 THEN -1 ELSE 1
      s_next == s + delta_s
  IN max(min(s_next, len(S) - 1), 0)

get_transition_matrix(S, A, P) ==
  [s \in Values(S) |-> [a \in Values(A) |-> [s_next \in Values(S) |->
     IF s_next = get_next_state(s, a, S) THEN P[s][a] ELSE 0]]]

\* the reward table with the two directions exchanged
get_reward_per_action_swapped(self) ==
  [s \in 0..(len(self.states) - 1) |-> [a \in 0..(len(self.actions) - 1) |->
     LET delta_s == IF a = 0 THEN 1 ELSE -1
         s_index == max(0, min(len(self.states) - 1, s + delta_s))
     IN self.rewards[s_index]]]

get_reward_per_action(self) ==
  [s \in 0..(len(self.states) - 1) |-> [a \in 0..(len(self.actions) - 1) |->
     LET delta_s == IF a = 0 THEN -1 ELSE 1
         s_index == max(0, min(len(self.states) - 1, s + delta_s))
     IN self.rewards[s_index]]]

\* __init__: the instance's fields after construction
MarsRover(transition_probabilities, rewards, horizon, seed, entropy) ==
  LET n == len(transition_probabilities)
      states == np_arange(0, n)
      actions == np_arange(0, 2)
  IN [rewards |-> rewards,
      transition_probabilities |-> transition_probabilities,
      current_steps |-> 0,
      horizon |-> horizon,
      position |-> 2,
      states |-> states,
      actions |-> actions,
      T |-> get_transition_matrix(states, actions, transition_probabilities),
      rng |-> default_rng(seed, entropy)]

\* a reset that forgets to clear the step counter
reset_keeps_steps(self, seed, options) ==
  LET s2 == [self EXCEPT !.position = 2]
  IN [self |-> s2, raised |-> "None", value |-> <<s2.position, EmptyDict>>]

\* a reset that reseeds the generator when a seed is passed
reset_reseeds(self, seed, options) ==
  LET s1 == [self EXCEPT !.current_steps = 0]
      s2 == [s1 EXCEPT !.position = 2]
      s3 == IF seed = NoSeed THEN s2
            ELSE [s2 EXCEPT !.rng = default_rng(seed, 0)]
  IN [self |-> s3, raised |-> "None", value |-> <<s3.position, EmptyDict>>]

\* reset: <<instance after the call, outcome of the call>>
reset(self, seed, options) ==
  LET s1 == [self EXCEPT !.current_steps = 0]
      s2 == [s1 EXCEPT !.position = 2]
      observation == s2.position
      info == EmptyDict
  IN [self |-> s2, raised |-> "None", value |-> <<observation, info>>]

\* numpy index of column `action` in a row of 2 entries (negative indices
\* count from the end); -1 when the index is out of bounds
column(row, action) ==
  IF action >= 0 /\ action < len(row) THEN action
  ELSE IF action < 0 /\ action >= -len(row) THEN action + len(row)
  ELSE -1

\* line 208: rng.random() < transition_probabilities[position][action]
follow_action(u, p) == u < p

\* a right edge one cell short
move_edge3(position, action) ==
  IF action = 0
  THEN (IF position > 0 THEN position - 1 ELSE position)
  ELSE (IF position < 3 THEN position + 1 ELSE position)

\* lines 213-218, for action in {0, 1}
move(position, action) ==
  IF action = 0
  THEN (IF position > 0 THEN position - 1 ELSE position)
  ELSE (IF position < 4 THEN position + 1 ELSE position)

\* truncation one step late
truncated_late(current_steps, horizon) == current_steps > horizon

\* truncation reported on the horizon-th step only
truncated_once(current_steps, horizon) == current_steps = horizon

\* line 226
truncated(current_steps, horizon) == current_steps >= horizon

\* reward of the cell to the left of the arrival cell
reward_at_left(rewards, position) ==
  rewards[IF position > 0 THEN position - 1 ELSE position]

\* line 223
reward_at(rewards, position) == rewards[position]

\* a step that draws only when the outcome is uncertain (0 < P < 1)
step_lazy_draw(self, action0) ==
  LET s1 == [self EXCEPT !.current_steps = @ + 1]
      P == s1.transition_probabilities
  IN IF s1.position \notin DOMAIN P \/ column(P[s1.position], action0) = -1
     THEN [self |-> s1, raised |-> "IndexError", value |-> <<>>]
     ELSE
       LET p == P[s1.position][column(P[s1.position], action0)]
           certain == p = 0 \/ p = Denom
           u == IF certain THEN 0 ELSE rng_random(s1.rng)
           s2 == IF certain THEN s1 ELSE [s1 EXCEPT !.rng = rng_advance(@)]
           action == IF follow_action(u, p) THEN action0 ELSE 1 - action0
       IN IF action \notin {0, 1}
          THEN [self |-> s2, raised |-> "RuntimeError", value |-> <<>>]
          ELSE
            LET s3 == [s2 EXCEPT !.position = move(@, action)]
            IN IF s3.position \notin DOMAIN s3.rewards
               THEN [self |-> s3, raised |-> "IndexError", value |-> <<>>]
               ELSE [self |-> s3, raised |-> "None",
                     value |-> <<s3.position, reward_at(s3.rewards, s3.position),
                                 FALSE, truncated(s3.current_steps, s3.horizon),
                                 EmptyDict>>]

\* step: <<instance after the call, outcome of the call>>.  An exception
\* leaves the assignments made before it in place.
step(self, action0) ==
  LET s1 == [self EXCEPT !.current_steps = @ + 1]
      u == rng_random(s1.rng)
      s2 == [s1 EXCEPT !.rng = rng_advance(@)]
      P == s2.transition_probabilities
  IN IF s2.position \notin DOMAIN P \/ column(P[s2.position], action0) = -1
     THEN [self |-> s2, raised |-> "IndexError", value |-> <<>>]
     ELSE
       LET p == P[s2.position][column(P[s2.position], action0)]
           action == IF follow_action(u, p) THEN action0 ELSE 1 - action0
       IN IF action \notin {0, 1}
          THEN [self |-> s2, raised |-> "RuntimeError", value |-> <<>>]
          ELSE
            LET s3 == [s2 EXCEPT !.position = move(@, action)]
            IN IF s3.position \notin DOMAIN s3.rewards
               THEN [self |-> s3, raised |-> "IndexError", value |-> <<>>]
               ELSE
                 LET reward == reward_at(s3.rewards, s3.position)
                     terminated == FALSE
                     trunc == truncated(s3.current_steps, s3.horizon)
                     info == EmptyDict
                 IN [self |-> s3, raised |-> "None",
                     value |-> <<s3.position, reward, terminated, trunc, info>>]

\* ---------------------------------------------------------------- inputs
\* transition_probabilities of shape n x 2 with entries in [0,1]
PTables(n) ==
  {[s \in 0..(n - 1) |-> [a \in 0..1 |-> q]] : q \in Probs}
  \cup {[s \in 0..(n - 1) |-> [a \in 0..1 |-> (s + a) % (Denom + 1)]]}

\* reward lists of length k
RTables(k) ==
  {[i \in 0..(k - 1) |-> IF i = 0 THEN 1 ELSE IF i = k - 1 THEN 10 ELSE 0],
   [i \in 0..(k - 1) |-> 3 * i + 2]}

Args(P, R, h, seed) ==
  [transition_probabilities |-> P, rewards |-> R, horizon |-> h, seed |-> seed]

ValidArgs ==
  UNION {{Args(P, R, h, seed) : P \in PTables(n), R \in RTables(n),
          h \in 1..MaxHorizon, seed \in Seeds} : n \in 1..MaxN}

Construct(a, entropy) ==
  MarsRover(a.transition_probabilities, a.rewards, a.horizon, a.seed, entropy)

Returned(call, args, r) ==
  [call |-> call, args |-> args, raised |-> r.raised, value |-> r.value]

\* ---------------------------------------------------------------- one engine
Init ==
  \E a \in ValidArgs, entropy \in 0..(RngMod - 1) :
    /\ sarsa_frame = NoCall
    /\ init_args = [e \in {1} |-> a]
    /\ env = [e \in {1} |-> Construct(a, entropy)]
    /\ ret = [e \in {1} |->
               [call |-> "__init__", args |-> <<>>, raised |-> "None", value |-> <<>>]]

Reset(e) ==
  \E seed \in Seeds, options \in {"None"} :
    LET r == reset(env[e], seed, options)
    IN /\ env' = [env EXCEPT ![e] = r.self]
       /\ ret' = [ret EXCEPT ![e] = Returned("reset", <<>>, r)]
       /\ UNCHANGED <<init_args, sarsa_frame>>

Step(e, action) ==
  /\ env[e].current_steps < MaxSteps
  /\ LET r == step(env[e], action)
     IN /\ env' = [env EXCEPT ![e] = r.self]
        /\ ret' = [ret EXCEPT ![e] = Returned("step", <<action>>, r)]
        /\ UNCHANGED <<init_args, sarsa_frame>>

Next ==
  \E e \in DOMAIN env :
    \/ Reset(e)
    \/ \E action \in ActionInputs : Step(e, action)

Spec == Init /\ [][Next]_vars

\* ---------------------------------------------------------------- two engines
\* Two engines constructed with the same arguments, each with its own
\* operating-system entropy, and fed the same calls.
InitPair ==
  \E a \in ValidArgs, entropy \in [{1, 2} -> 0..(RngMod - 1)] :
    /\ sarsa_frame = NoCall
    /\ init_args = [e \in {1, 2} |-> a]
    /\ env = [e \in {1, 2} |-> Construct(a, entropy[e])]
    /\ ret = [e \in {1, 2} |->
               [call |-> "__init__", args |-> <<>>, raised |-> "None", value |-> <<>>]]

ResetBoth ==
  \E seed \in Seeds, options \in {"None"} :
    /\ env' = [e \in DOMAIN env |-> reset(env[e], seed, options).self]
    /\ ret' = [e \in DOMAIN env |->
                Returned("reset", <<>>, reset(env[e], seed, options))]
    /\ UNCHANGED <<init_args, sarsa_frame>>

StepBoth(action) ==
  /\ \A e \in DOMAIN env : env[e].current_steps < MaxSteps
  /\ env' = [e \in DOMAIN env |-> step(env[e], action).self]
  /\ ret' = [e \in DOMAIN env |-> Returned("step", <<action>>, step(env[e], action))]
  /\ UNCHANGED <<init_args, sarsa_frame>>

NextPair ==
  \/ ResetBoth
  \/ \E action \in ActionInputs : StepBoth(action)

SpecPair == InitPair /\ [][NextPair]_vars

\* ---------------------------------------------------------------- any shapes
\* Construction with a rewards list of any length, equal to the number of
\* rows of transition_probabilities or not.
AnyArgs ==
  UNION {{Args(P, R, h, seed) : P \in PTables(n), R \in RTables(k),
          h \in 1..MaxHorizon, seed \in Seeds} : n \in 1..MaxN, k \in 1..MaxN}

InitCfg ==
  \E a \in AnyArgs, entropy \in 0..(RngMod - 1) :
    /\ sarsa_frame = NoCall
    /\ init_args = [e \in {1} |-> a]
    /\ env = [e \in {1} |-> Construct(a, entropy)]
    /\ ret = [e \in {1} |->
               [call |-> "__init__", args |-> <<>>, raised |-> "None", value |-> <<>>]]

SpecCfg == InitCfg /\ [][Next]_vars

\* ---------------------------------------------------------------- queries
\* One engine on which the two table methods are called as well.
GetRewardPerAction(e) ==
  /\ env' = env
  /\ ret' = [ret EXCEPT ![e] =
              [call |-> "get_reward_per_action", args |-> <<>>, raised |-> "None",
               value |-> <<get_reward_per_action(env[e])>>]]
  /\ UNCHANGED <<init_args, sarsa_frame>>

GetTransitionMatrix(e) ==
  /\ env' = env
  /\ ret' = [ret EXCEPT ![e] =
              [call |-> "get_transition_matrix", args |-> <<>>, raised |-> "None",
               value |-> <<get_transition_matrix(env[e].states, env[e].actions,
                                                 env[e].transition_probabilities)>>]]
  /\ UNCHANGED <<init_args, sarsa_frame>>

NextQuery ==
  \E e \in DOMAIN env :
    \/ Reset(e)
    \/ \E action \in ActionInputs : Step(e, action)
    \/ GetRewardPerAction(e)
    \/ GetTransitionMatrix(e)

SpecQuery == Init /\ [][NextQuery]_vars

\* ---------------------------------------------------------------- defaults
\* The engine MarsRover(seed=0): the default arguments of __init__.
DefaultN == 5

DefaultHorizon == 10

DefaultP == [s \in 0..(DefaultN - 1) |-> [a \in 0..1 |-> Denom]]

DefaultRewards == [i \in 0..(DefaultN - 1) |-> <<1, 0, 0, 0, 10>>[i + 1]]

DefaultArgs(seed) == Args(DefaultP, DefaultRewards, DefaultHorizon, seed)

InitDefault ==
  /\ sarsa_frame = NoCall
  /\ init_args = [e \in {1} |-> DefaultArgs(0)]
  /\ env = [e \in {1} |-> Construct(DefaultArgs(0), 0)]
  /\ ret = [e \in {1} |->
             [call |-> "__init__", args |-> <<>>, raised |-> "None", value |-> <<>>]]

\* steps up to one past the horizon
StepLong(e, action) ==
  /\ env[e].current_steps <= env[e].horizon
  /\ LET r == step(env[e], action)
     IN /\ env' = [env EXCEPT ![e] = r.self]
        /\ ret' = [ret EXCEPT ![e] = Returned("step", <<action>>, r)]
        /\ UNCHANGED <<init_args, sarsa_frame>>

NextDefault ==
  \E e \in DOMAIN env :
    \/ Reset(e)
    \/ \E action \in ActionInputs : StepLong(e, action)

SpecDefault == InitDefault /\ [][NextDefault]_vars

\* ---------------------------------------------------------------- interleaving
\* Two engines of one process, constructed independently (with the default
\* arguments or with a table of uncertain moves) and called in any order.
UncertainP == [s \in 0..(DefaultN - 1) |-> [a \in 0..1 |-> Denom \div 2]]

InterArgs ==
  {DefaultArgs(NoSeed), Args(UncertainP, DefaultRewards, 1, NoSeed)}

InitInter ==
  \E a \in [{1, 2} -> InterArgs], entropy \in [{1, 2} -> 0..(RngMod - 1)] :
    /\ sarsa_frame = NoCall
    /\ init_args = a
    /\ env = [e \in {1, 2} |-> Construct(a[e], entropy[e])]
    /\ ret = [e \in {1, 2} |->
               [call |-> "__init__", args |-> <<>>, raised |-> "None", value |-> <<>>]]

\* a step drawing from a generator shared by all engines of the process
StepShort_shared_rng(e, action) ==
  /\ env[e].current_steps < InterMaxSteps
  /\ LET r == step(env[e], action)
     IN /\ env' = [x \in DOMAIN env |->
                    IF x = e THEN r.self
                    ELSE [env[x] EXCEPT !.rng = rng_advance(@)]]
        /\ ret' = [ret EXCEPT ![e] = Returned("step", <<action>>, r)]
        /\ UNCHANGED <<init_args, sarsa_frame>>

\* steps of short episodes
StepShort(e, action) ==
  /\ env[e].current_steps < InterMaxSteps
  /\ LET r == step(env[e], action)
     IN /\ env' = [env EXCEPT ![e] = r.self]
        /\ ret' = [ret EXCEPT ![e] = Returned("step", <<action>>, r)]
        /\ UNCHANGED <<init_args, sarsa_frame>>

NextInter ==
  \E e \in DOMAIN env :
    \/ Reset(e)
    \/ \E action \in ActionInputs : StepShort(e, action)

SpecInter == InitInter /\ [][NextInter]_vars

\* ---------------------------------------------------------------- sarsa
\* sarsa(env, num_episodes, gamma, alpha, epsilon) of week_5/sarsa.py, run on
\* engine 1.  gamma, alpha and epsilon are numerators over Denom.  The frame
\* holds the locals of the call; `resets` counts the calls of env.reset.
HyperparametersOk(gamma, alpha, epsilon) ==
  /\ 0 <= gamma /\ gamma <= Denom
  /\ 0 <= epsilon /\ epsilon <= Denom
  /\ alpha > 0

InitSarsa ==
  \E a \in InterArgs, entropy \in 0..(RngMod - 1),
     num_episodes \in 0..MaxEpisodes,
     gamma \in {Denom, Denom + 1}, alpha \in {0, 1}, epsilon \in {0} :
    /\ sarsa_frame = [pc |-> "call", num_episodes |-> num_episodes,
                      gamma |-> gamma, alpha |-> alpha, epsilon |-> epsilon,
                      Q |-> EmptyDict, rewards |-> <<>>, lens |-> <<>>,
                      num_performed_steps |-> 0, i_episode |-> 0, done |-> FALSE,
                      episode_length |-> 0, cumulative_reward |-> 0, resets |-> 0]
    /\ init_args = [e \in {1} |-> a]
    /\ env = [e \in {1} |-> Construct(a, entropy)]
    /\ ret = [e \in {1} |->
               [call |-> "__init__", args |-> <<>>, raised |-> "None", value |-> <<>>]]

\* lines 23-37: the assertions and the initial locals
SarsaEnter ==
  /\ sarsa_frame.pc = "call"
  /\ sarsa_frame' =
       [sarsa_frame EXCEPT !.pc =
          IF HyperparametersOk(sarsa_frame.gamma, sarsa_frame.alpha, sarsa_frame.epsilon)
          THEN "for" ELSE "AssertionError"]
  /\ UNCHANGED <<env, ret, init_args>>

\* lines 39-45: the next episode of range(num_episodes + 1) starts
SarsaEpisode ==
  /\ sarsa_frame.pc = "for"
  /\ sarsa_frame.i_episode < sarsa_frame.num_episodes + 1
  /\ LET r == reset(env[1], NoSeed, "None")
     IN /\ env' = [env EXCEPT ![1] = r.self]
        /\ ret' = [ret EXCEPT ![1] = Returned("reset", <<>>, r)]
  /\ sarsa_frame' = [sarsa_frame EXCEPT !.pc = "while", !.done = FALSE,
                       !.episode_length = 0, !.cumulative_reward = 0,
                       !.resets = @ + 1]
  /\ UNCHANGED init_args

\* lines 46-52: one pass of the roll-out loop
SarsaRollout ==
  /\ sarsa_frame.pc = "while"
  /\ ~sarsa_frame.done
  /\ sarsa_frame' = [sarsa_frame EXCEPT !.num_performed_steps = @ + 1,
                       !.cumulative_reward = @ + 0,
                       !.episode_length = @ + 1,
                       !.done = TRUE]
  /\ UNCHANGED <<env, ret, init_args>>

\* lines 53-56: the episode's statistics are appended
SarsaEpisodeEnd ==
  /\ sarsa_frame.pc = "while"
  /\ sarsa_frame.done
  /\ sarsa_frame' = [sarsa_frame EXCEPT
                       !.rewards = Append(@, sarsa_frame.cumulative_reward),
                       !.lens = Append(@, sarsa_frame.episode_length),
                       !.i_episode = @ + 1,
                       !.pc = "for"]
  /\ UNCHANGED <<env, ret, init_args>>

\* line 58
SarsaReturn ==
  /\ sarsa_frame.pc = "for"
  /\ ~(sarsa_frame.i_episode < sarsa_frame.num_episodes + 1)
  /\ sarsa_frame' = [sarsa_frame EXCEPT !.pc = "returned"]
  /\ UNCHANGED <<env, ret, init_args>>

NextSarsa ==
  \/ SarsaEnter
  \/ SarsaEpisode
  \/ SarsaRollout
  \/ SarsaEpisodeEnd
  \/ SarsaReturn

SpecSarsa == InitSarsa /\ [][NextSarsa]_vars

\* ---------------------------------------------------------------- properties
\* the call described by ret'[e] was made on engine e in this step
Called(e, call) ==
  /\ ret'[e].call = call
  /\ \/ env'[e] # env[e]
     \/ ret'[e].call # ret[e].call
     \/ ret'[e] # ret[e]

StepReturned(e) == ret[e].call = "step" /\ ret[e].raised = "None"

AllOnes(P) == \A s \in DOMAIN P : \A a \in DOMAIN P[s] : P[s][a] = Denom

\* C1: the position and every observation returned by reset or step is an
\* integer in [0, n-1], n the number of rows of transition_probabilities.
C1_PositionInRange ==
  \A e \in DOMAIN env :
    LET n == len(env[e].transition_probabilities)
    IN /\ env[e].position \in 0..(n - 1)
       /\ (ret[e].call \in {"reset", "step"} /\ ret[e].raised = "None")
            => ret[e].value[1] \in 0..(n - 1)

\* C2: a step with an action outside {0,1} fails with the RuntimeError raised
\* in step, never with another fault and never by returning.
C2_InvalidActionRuntimeError ==
  \A e \in DOMAIN env :
    (ret[e].call = "step" /\ ret[e].args[1] \notin {0, 1})
      => ret[e].raised = "RuntimeError"

\* C3: a failed step with an action outside {0,1} leaves position and
\* current_steps as they were before the call.
C3_FailedStepNoMutation ==
  [][\A e \in DOMAIN env :
       (Called(e, "step") /\ ret'[e].args[1] \notin {0, 1} /\ ret'[e].raised # "None")
         => /\ env'[e].position = env[e].position
            /\ env'[e].current_steps = env[e].current_steps]_vars

\* C4: every step call increases current_steps by exactly 1; the truncated
\* flag it returns is true exactly when current_steps >= horizon after the
\* increment, and terminated is false.
C4_StepCounting ==
  [][\A e \in DOMAIN env :
       Called(e, "step")
         => /\ env'[e].current_steps = env[e].current_steps + 1
            /\ ret'[e].raised = "None"
                 => /\ ret'[e].value[3] = FALSE
                    /\ ret'[e].value[4]
                         = (env'[e].current_steps >= env'[e].horizon)]_vars

C4_Witness ==
  \E e \in DOMAIN env :
    /\ StepReturned(e)
    /\ ret[e].value[4] = TRUE
    /\ env[e].current_steps = env[e].horizon

\* C5: reset leaves position = 2 and current_steps = 0 and returns (2, {}),
\* in any state and with any seed/options; a freshly constructed engine is in
\* the same episode state.
C5_ResetState ==
  \A e \in DOMAIN env :
    /\ ret[e].call \in {"reset", "__init__"}
         => /\ env[e].position = 2
            /\ env[e].current_steps = 0
            /\ ret[e].raised = "None"
    /\ ret[e].call = "reset" => ret[e].value = <<2, EmptyDict>>

\* a reset made after at least one step: the generator has left the state
\* the seed put it in
C5_Witness ==
  \E e \in DOMAIN env :
    /\ ret[e].call = "reset"
    /\ init_args[e].seed # NoSeed
    /\ env[e].rng # default_rng(init_args[e].seed, 0)

\* C6: the reward returned by a successful step is R[p], p the position after
\* the move, which is also the observation the call returns.
C6_RewardOfArrival ==
  \A e \in DOMAIN env :
    StepReturned(e)
      => /\ ret[e].value[1] = env[e].position
         /\ ret[e].value[2] = env[e].rewards[env[e].position]

\* a flipped step: asked to go right from 2 where the action is never
\* followed, and arrived at 1
C6_Witness ==
  \E e \in DOMAIN env :
    /\ StepReturned(e)
    /\ ret[e].args = <<1>>
    /\ env[e].current_steps = 1
    /\ env[e].transition_probabilities[2][1] = 0
    /\ env[e].position = 1
    /\ ret[e].value[2] = env[e].rewards[1]

\* C7: with transition_probabilities all ones, step(0) from s > 0 yields s-1
\* and step(1) from s < n-1 yields s+1, for s in [0, n-1] and any draw.
C7_DeterministicMoves ==
  [][\A e \in DOMAIN env :
       LET n == len(env[e].transition_probabilities)
           s == env[e].position
       IN (/\ Called(e, "step")
           /\ AllOnes(env[e].transition_probabilities)
           /\ s \in 0..(n - 1))
            => /\ (ret'[e].args = <<0>> /\ s > 0)
                    => (ret'[e].raised = "None" /\ ret'[e].value[1] = s - 1)
               /\ (ret'[e].args = <<1>> /\ s < n - 1)
                    => (ret'[e].raised = "None" /\ ret'[e].value[1] = s + 1)]_vars

\* C8: two engines constructed with the same arguments and the same fixed
\* seed, fed the same calls, return the same values at every call.
C8_Reproducible ==
  \A e1, e2 \in DOMAIN env :
    (init_args[e1] = init_args[e2] /\ init_args[e1].seed # NoSeed)
      => ret[e1] = ret[e2]

\* two seeded engines after two steps whose outcome depended on the draws
C8_Witness ==
  /\ DOMAIN env = {1, 2}
  /\ init_args[1] = init_args[2]
  /\ init_args[1].seed # NoSeed
  /\ \A s \in DOMAIN env[1].transition_probabilities :
       \A a \in 0..1 : env[1].transition_probabilities[s][a] \notin {0, Denom}
  /\ StepReturned(1) /\ StepReturned(2)
  /\ env[1].current_steps >= 2

\* C9: a rewards list whose length differs from the number of rows of
\* transition_probabilities is reported as a fault at construction, so no
\* such engine is ever stepped.
C9_MismatchRejected ==
  \A e \in DOMAIN env :
    len(env[e].rewards) # len(env[e].transition_probabilities)
      => (ret[e].call = "__init__" /\ ret[e].raised # "None")

\* C10: for every (s, a) the entries T[s,a,s'] of the transition tensor built
\* at construction sum to 1 over s'.
C10_RowsSumToOne ==
  \A e \in DOMAIN env :
    \A s \in DOMAIN env[e].T : \A a \in DOMAIN env[e].T[s] :
      SumOver(env[e].T[s][a], DOMAIN env[e].T[s][a]) = Denom

\* the action a step applies: the requested one when the draw u is below
\* P[p][a], the opposite one otherwise
Effective(P, p, a, u) == IF u < P[p][a] THEN a ELSE 1 - a

\* clamp(x, lo, hi) of the movement rule
clamp(x, lo, hi) == max(lo, min(hi, x))

delta(a) == IF a = 0 THEN -1 ELSE 1

\* C11: T[s,a,s'] is the probability that a step made at s with requested
\* action a arrives at s': P[s,a] on the target of the followed action plus
\* 1 - P[s,a] on the target of the flipped action.
C11_TensorIsStepDistribution ==
  \A e \in DOMAIN env :
    LET P == env[e].transition_probabilities
    IN \A s \in DOMAIN P : \A a \in 0..1 : \A s2 \in DOMAIN P :
         env[e].T[s][a][s2]
           = (IF s2 = move(s, a) THEN P[s][a] ELSE 0)
             + (IF s2 = move(s, 1 - a) THEN Denom - P[s][a] ELSE 0)

\* C14: a step at p in [0, n-1] with requested action a in {0,1} and draw u
\* applies b = a if u < P[p,a] and 1-a otherwise, and the new position is
\* clamp(p + delta(b), 0, n-1), the value of get_next_state(p, b, S).
C14_SharedMovementRule ==
  [][\A e \in DOMAIN env :
       LET P == env[e].transition_probabilities
           n == len(P)
           p == env[e].position
           u == rng_random(env[e].rng)
       IN (/\ Called(e, "step")
           /\ ret'[e].args[1] \in {0, 1}
           /\ p \in 0..(n - 1))
            => LET b == Effective(P, p, ret'[e].args[1], u)
               IN /\ env'[e].position = clamp(p + delta(b), 0, n - 1)
                  /\ env'[e].position = get_next_state(p, b, env[e].states)]_vars

\* C15: reset changes only position and current_steps: the generator's
\* state, transition probabilities, rewards, transition tensor and horizon
\* are the same after the call, whatever seed and options are passed.
C15_ResetFrame ==
  [][\A e \in DOMAIN env :
       Called(e, "reset")
         => /\ env'[e].rng = env[e].rng
            /\ env'[e].transition_probabilities = env[e].transition_probabilities
            /\ env'[e].rewards = env[e].rewards
            /\ env'[e].T = env[e].T
            /\ env'[e].horizon = env[e].horizon]_vars

\* a reset after two draws of a seeded generator: the stream was not rewound
C15_Witness ==
  \E e \in DOMAIN env :
    /\ ret[e].call = "reset"
    /\ init_args[e].seed # NoSeed
    /\ env[e].rng = rng_advance(rng_advance(default_rng(init_args[e].seed, 0)))
    /\ env[e].rng # default_rng(init_args[e].seed, 0)

C18_TruncationPerEpisode ==
  [][\A e \in DOMAIN env :
       (Called(e, "step") /\ ret'[e].args[1] \in {0, 1})
         => LET k == env[e].current_steps + 1
                p == env[e].position
            IN /\ ret'[e].raised = "None"
                    => /\ ret'[e].value[4] = (k >= env[e].horizon)
                       /\ (StepReturned(e) /\ ret[e].value[4])
                            => ret'[e].value[4]
                       /\ ret[e].call = "reset"
                            => ret'[e].value[4] = (env[e].horizon <= 1)
               /\ (/\ k > env[e].horizon
                   /\ p \in 1..3
                   /\ p + 1 \in DOMAIN env[e].rewards
                   /\ p \in DOMAIN env[e].transition_probabilities)
                    => /\ ret'[e].raised = "None"
                       /\ env'[e].position \in {p - 1, p + 1}
                       /\ env'[e].current_steps = k]_vars

\* a step made after the episode was truncated: it returned, moved the rover
\* and reported truncated again
C18_Witness ==
  \E e \in DOMAIN env :
    /\ StepReturned(e)
    /\ env[e].current_steps > env[e].horizon
    /\ ret[e].value[4] = TRUE
    /\ ret[e].value[1] = env[e].position

\* C17: get_reward_per_action returns the n x 2 matrix with entry [s,a] =
\* R[get_next_state(s, a, S)], that is R[max(0, s-1)] for a = 0 and
\* R[min(n-1, s+1)] for a = 1, whatever the position and the step count.
C17_RewardPerAction ==
  \A e \in DOMAIN env :
    ret[e].call = "get_reward_per_action"
      => LET n == len(env[e].transition_probabilities)
             R == env[e].rewards
             R_sa == ret[e].value[1]
         IN /\ ret[e].raised = "None"
            /\ DOMAIN R_sa = 0..(n - 1)
            /\ \A s \in 0..(n - 1) :
                 /\ DOMAIN R_sa[s] = 0..1
                 /\ R_sa[s][0] = R[max(0, s - 1)]
                 /\ R_sa[s][1] = R[min(n - 1, s + 1)]
                 /\ \A a \in 0..1 :
                      R_sa[s][a] = R[get_next_state(s, a, env[e].states)]

\* the table asked for in the middle of an episode, away from the start cell
C17_Witness ==
  \E e \in DOMAIN env :
    /\ ret[e].call = "get_reward_per_action"
    /\ env[e].current_steps >= 2
    /\ env[e].position # 2
    /\ len(env[e].rewards) > 5
    /\ ret[e].value[1][0][0] # ret[e].value[1][0][1]

C12_DefaultTrace ==
  [][\A e \in DOMAIN env :
       /\ Called(e, "reset") => ret'[e].value = <<2, EmptyDict>>
       /\ (/\ Called(e, "step")
           /\ ret'[e].args = <<1>>
           /\ ret[e].call = "reset")
            => (/\ ret'[e].raised = "None"
                /\ ret'[e].value = <<3, 0, FALSE, FALSE, EmptyDict>>)
       /\ (/\ Called(e, "step")
           /\ ret'[e].args = <<1>>
           /\ StepReturned(e)
           /\ ret[e].args = <<1>>
           /\ env[e].current_steps = 1)
            => (/\ ret'[e].raised = "None"
                /\ ret'[e].value = <<4, 10, FALSE, FALSE, EmptyDict>>)
       /\ (Called(e, "step") /\ ret'[e].raised = "None")
            => /\ env'[e].current_steps \in 1..9 => ret'[e].value[4] = FALSE
               /\ env'[e].current_steps = 10 => ret'[e].value[4] = TRUE]_vars

\* the 10th step of an episode of the default engine, arrived at the right
\* edge
C12_Witness ==
  \E e \in DOMAIN env :
    /\ init_args[e] = DefaultArgs(0)
    /\ StepReturned(e)
    /\ ret[e].args = <<1>>
    /\ env[e].current_steps = 10
    /\ ret[e].value = <<4, 10, FALSE, TRUE, EmptyDict>>

\* engine e is not the same after this step as before it
Changed(e) ==
  \/ env'[e] # env[e]
  \/ ret'[e].call # ret[e].call
  \/ ret'[e] # ret[e]

\* C13: a call on one engine changes nothing of another engine (position,
\* current_steps, generator, last result), and gives the called engine the
\* result the call gives when the engine runs alone; so interleaving the
\* calls of two engines gives each its own sequence.
C13_Independent ==
  [][\A e1, e2 \in DOMAIN env :
       (e1 # e2 /\ Changed(e1))
         => /\ env'[e2] = env[e2]
            /\ ret'[e2] = ret[e2]
            /\ ret'[e1].call = "step"
                 => LET r == step(env[e1], ret'[e1].args[1])
                    IN /\ env'[e1] = r.self
                       /\ ret'[e1].raised = r.raised
                       /\ ret'[e1].value = r.value
            /\ ret'[e1].call = "reset"
                 => /\ env'[e1].rng = env[e1].rng
                    /\ ret'[e1].value = <<2, EmptyDict>>]_vars

\* two engines built with the default arguments, stepped in turn to
\* different cells
C13_Witness ==
  /\ DOMAIN env = {1, 2}
  /\ init_args[1] = DefaultArgs(NoSeed)
  /\ init_args[2] = DefaultArgs(NoSeed)
  /\ StepReturned(1) /\ StepReturned(2)
  /\ env[1].current_steps = 2
  /\ env[2].current_steps = 1
  /\ env[1].position = 4
  /\ env[2].position = 1

\* C20: sarsa(env, num_episodes) trains exactly num_episodes episodes: when
\* it returns it has called env.reset num_episodes times and rewards and lens
\* have num_episodes entries each.
C20_ExactlyNumEpisodes ==
  sarsa_frame.pc = "returned"
    => /\ sarsa_frame.resets = sarsa_frame.num_episodes
       /\ Len(sarsa_frame.rewards) = sarsa_frame.num_episodes
       /\ Len(sarsa_frame.lens) = sarsa_frame.num_episodes

====
